---- MODULE Spec2Model ----
(***************************************************************************)
(* Model of rtsp_server.py: the capture loop of the main thread, the       *)
(* single-slot frame store of ThreadedHTTPServer (current_frame), and the  *)
(* request handler threads of StreamingHandler.do_GET.                      *)
(*                                                                         *)
(* Frames are numpy arrays, that is, heap objects reached by reference.     *)
(* The heap maps an object id to the content of the array: the capture     *)
(* whose image it holds (img) and the capture whose temperature text was   *)
(* drawn on it (text, 0 while no text has been drawn).                     *)
(*                                                                         *)
(* A write to a client that does not drain its socket blocks: the write    *)
(* step of a connection is enabled only while its client is not "slow".    *)
(* The standard library semantics used are those of socketserver in        *)
(* Python 3.7 and later (server_close joins the non-daemon handler         *)
(* threads; the interpreter waits for non-daemon threads before exiting).  *)
(***************************************************************************)
EXTENDS Integers, Sequences, FiniteSets, TLC

\* Frames the camera can deliver in one run.
MaxCaptures == 2

\* Writes of one multipart part (boundary, header, payload, line break).
PartLen == 4

Conns == {"c1", "c2"}
Paths == {"/", "/stream", "/other"}

None == 0

\* Value of a local variable that no assignment has bound yet.
Unbound == None - 1

VARIABLES
  pc,            \* position of the main thread
  headless,      \* args.headless
  cap,           \* camera handle: "unset", "open", "unopened", "released"
  n,             \* successful cap.read() calls so far
  ret,           \* ret of the last cap.read(): "unset", "True", "False"
  heatmap,       \* object the local variable heatmap refers to (None: unbound)
  heap,          \* content of every array object
  current_frame, \* server.current_frame: None or an object id
  published,     \* log: content of the object at each set_frame call
  exc,           \* an uncaught exception is propagating in the main thread
  accepting,     \* serve_forever is running
  sock,          \* listening socket: "unbound", "listening", "closed"
  window,        \* the display window exists
  path,          \* request path of each connection
  cpc,           \* position of each connection and of its handler thread
  client,        \* each client: "ok", "slow" (not draining), "gone"
  status,        \* HTTP status sent on each connection (0: none yet)
  frame,         \* local variable frame of each /stream handler
  jpeg,          \* local variable jpeg of each /stream handler
  out,           \* log of the writes of each /stream loop (most recent parts)
  thdata,        \* thdata[96][128]: the two bytes of the thermal pixel
  rawtemp,       \* local variable rawtemp of the capture loop
  temp           \* local variable temp, in units of 1/6400 degree Celsius

\* Locals of the temperature decode (lines 114-121).
locals == <<thdata, rawtemp, temp>>

mainVars == <<pc, headless, cap, n, ret, heatmap, heap, current_frame,
              published, exc, window, locals>>
srvVars == <<accepting, sock>>
connVars == <<path, cpc, client, status, frame, jpeg, out>>
vars == <<mainVars, srvVars, connVars>>

----------------------------------------------------------------------------
\* Array contents and the multipart tokens.

Blank == [img |-> 0, text |-> 0]

\* cv2.applyColorMap returns a new array holding the image of capture k.
ColorMapped(k) == [img |-> k, text |-> 0]

\* cv2.putText draws the temperature of capture k on the array, in place.
PutText(content, k) == [content EXCEPT !.text = k]

\* A frame as published: colour-mapped and annotated for the same capture.
Whole(content) == content.img >= 1 /\ content.text = content.img

NoJpeg == [kind |-> "none", img |-> 0, text |-> 0]
Boundary == [kind |-> "--frame\r\n", img |-> 0, text |-> 0]
Header == [kind |-> "Content-Type: image/jpeg\r\n\r\n", img |-> 0, text |-> 0]
CRLF == [kind |-> "\r\n", img |-> 0, text |-> 0]

\* cv2.imencode('.jpg', frame): the JPEG of the array's content at the time
\* of the call.
Imencode(content) == [kind |-> "jpeg", img |-> content.img, text |-> content.text]

----------------------------------------------------------------------------
\* ThreadedHTTPServer

\* A store that starts with a default array instead of None.
InitialFrame_Default == None + 1

\* __init__: self.current_frame = None
InitialFrame == None

\* A store that keeps the frame it has once it has one.
set_frame_KeepFirst(f) == IF current_frame = None THEN f ELSE current_frame

\* A store that keeps another array than the one it is given.
set_frame_Other(f) == (MaxCaptures + 1) - f

\* set_frame: the value of self.current_frame after set_frame(f)
set_frame(f) == f

\* get_frame: the value returned
get_frame == current_frame

\* A server whose handler threads are daemon threads.
daemon_threads_On == TRUE

\* ThreadingMixIn.daemon_threads, not overridden by ThreadedHTTPServer
daemon_threads == FALSE

\* A server without ThreadingMixIn.
HandlerThread_Inline(c) == "server"

\* ThreadingMixIn.process_request runs each handler in a thread of its own
\* ("own"); plain HTTPServer would run it in the serve_forever thread
\* ("server").
HandlerThread(c) == "own"

HandlerPcs == {"do_GET", "get_frame", "test", "w_boundary", "w_header",
               "w_payload", "w_crlf", "except"}
StreamPcs == HandlerPcs \ {"do_GET"}
WritePcs == {"w_boundary", "w_header", "w_payload", "w_crlf"}

\* The handler thread of connection c is alive.
Active(c) == cpc[c] \in HandlerPcs

\* The serve_forever thread is in its select loop, not inside a handler.
ServerIdle == \A c \in Conns : ~(Active(c) /\ HandlerThread(c) = "server")

\* Every handler thread that server_close and the interpreter exit wait for
\* has ended.
ThreadsJoined == daemon_threads \/ \A c \in Conns : ~Active(c)

----------------------------------------------------------------------------
Init ==
  /\ pc = "init_server"
  /\ headless \in BOOLEAN
  /\ cap = "unset"
  /\ n = 0
  /\ ret = "unset"
  /\ heatmap = None
  /\ heap = [o \in 1..MaxCaptures |-> Blank]
  /\ current_frame = None
  /\ published = <<>>
  /\ exc = FALSE
  /\ accepting = FALSE
  /\ sock = "unbound"
  /\ window = FALSE
  /\ path = [c \in Conns |-> "/"]
  /\ cpc = [c \in Conns |-> "idle"]
  /\ client = [c \in Conns |-> "ok"]
  /\ status = [c \in Conns |-> 0]
  /\ frame = [c \in Conns |-> None]
  /\ jpeg = [c \in Conns |-> NoJpeg]
  /\ out = [c \in Conns |-> <<>>]
  /\ thdata = <<>>
  /\ rawtemp = Unbound
  /\ temp = Unbound

----------------------------------------------------------------------------
\* Main thread: start-up (lines 77-105)

\* server = ThreadedHTTPServer(('0.0.0.0', args.port), StreamingHandler):
\* binds and listens, then sets current_frame; a failed bind raises and the
\* script ends there.
InitServer ==
  /\ pc = "init_server"
  /\ \/ /\ sock' = "listening"
        /\ current_frame' = InitialFrame
        /\ pc' = "start_thread"
     \/ /\ pc' = "crashed"
        /\ UNCHANGED <<sock, current_frame>>
  /\ UNCHANGED <<headless, locals, cap, n, ret, heatmap, heap, published, exc,
                 window, accepting, connVars>>

\* server_thread = threading.Thread(target=server.serve_forever); start()
StartServerThread ==
  /\ pc = "start_thread"
  /\ accepting' = TRUE
  /\ pc' = "open_cap"
  /\ UNCHANGED <<headless, locals, cap, n, ret, heatmap, heap, current_frame,
                 published, exc, window, sock, connVars>>

\* cap = cv2.VideoCapture(...): the device opens or it does not (no raise).
OpenCapture ==
  /\ pc = "open_cap"
  /\ cap' \in {"open", "unopened"}
  /\ pc' = "isOpened"
  /\ UNCHANGED <<headless, locals, n, ret, heatmap, heap, current_frame, published,
                 exc, window, srvVars, connVars>>

----------------------------------------------------------------------------
\* Main thread: the capture loop (lines 107-144)

TryPcs == {"isOpened", "read", "process", "putText", "set_frame", "display"}

\* A loop entered without asking the camera handle whether it opened.
IsOpened_Unchecked ==
  /\ pc = "isOpened"
  /\ pc' = "read"
  /\ UNCHANGED <<headless, locals, cap, n, ret, heatmap, heap, current_frame,
                 published, exc, window, srvVars, connVars>>

\* while cap.isOpened():
IsOpened ==
  /\ pc = "isOpened"
  /\ IF cap = "open"
       THEN pc' = "read"
       ELSE pc' = "release"
  /\ UNCHANGED <<headless, locals, cap, n, ret, heatmap, heap, current_frame,
                 published, exc, window, srvVars, connVars>>

\* ret, frame = cap.read(); if not ret: break
Read ==
  /\ pc = "read"
  /\ \/ /\ n < MaxCaptures
        /\ n' = n + 1
        /\ ret' = "True"
        /\ pc' = "process"
     \/ /\ ret' = "False"
        /\ pc' = "release"
        /\ n' = n
  /\ UNCHANGED <<headless, locals, cap, heatmap, heap, current_frame, published, exc,
                 window, srvVars, connVars>>

\* A capture loop that colour-maps every capture into one and the same array.
NewHeatmap_Reused(k) == 1

\* The array object that applyColorMap returns for capture k: a new one.
NewHeatmap(k) == k

\* Lines 114-131: split, temperature, conversion, heatmap = applyColorMap(..).
\* A malformed frame makes one of these calls raise; no except clause of the
\* try catches it, so the finally block runs with the exception pending.
Process ==
  /\ pc = "process"
  /\ \/ /\ heatmap' = NewHeatmap(n)
        /\ heap' = [heap EXCEPT ![NewHeatmap(n)] = ColorMapped(n)]
        /\ pc' = "putText"
        /\ exc' = exc
     \/ /\ exc' = TRUE
        /\ pc' = "release"
        /\ UNCHANGED <<heatmap, heap>>
  /\ UNCHANGED <<headless, locals, cap, n, ret, current_frame, published, window,
                 srvVars, connVars>>

\* cv2.putText(heatmap, ...): draws on the array in place.
PutTextStep ==
  /\ pc = "putText"
  /\ heap' = [heap EXCEPT ![heatmap] = PutText(heap[heatmap], n)]
  /\ pc' = "set_frame"
  /\ UNCHANGED <<headless, locals, cap, n, ret, heatmap, current_frame, published,
                 exc, window, srvVars, connVars>>

\* server.set_frame(heatmap)
SetFrame ==
  /\ pc = "set_frame"
  /\ current_frame' = set_frame(heatmap)
  /\ published' = Append(published, heap[heatmap])
  /\ pc' = "display"
  /\ UNCHANGED <<headless, locals, cap, n, ret, heatmap, heap, exc, window,
                 srvVars, connVars>>

\* if not args.headless: imshow; if waitKey(1) & 0xFF == ord('q'): break
Display ==
  /\ pc = "display"
  /\ IF headless
       THEN /\ pc' = "isOpened"
            /\ window' = window
       ELSE /\ window' = TRUE
            /\ pc' \in {"isOpened", "release"}
  /\ UNCHANGED <<headless, locals, cap, n, ret, heatmap, heap, current_frame,
                 published, exc, srvVars, connVars>>

\* Ctrl+C while the main thread is inside the try block.
Interrupt ==
  /\ pc \in TryPcs
  /\ pc' = "except"
  /\ UNCHANGED <<headless, locals, cap, n, ret, heatmap, heap, current_frame,
                 published, exc, window, srvVars, connVars>>

\* except KeyboardInterrupt: print
Except ==
  /\ pc = "except"
  /\ pc' = "release"
  /\ UNCHANGED <<headless, locals, cap, n, ret, heatmap, heap, current_frame,
                 published, exc, window, srvVars, connVars>>

----------------------------------------------------------------------------
\* Main thread: the finally block (lines 149-155) and the interpreter exit

\* cap.release()
Release ==
  /\ pc = "release"
  /\ cap' = "released"
  /\ pc' = "shutdown"
  /\ UNCHANGED <<headless, locals, n, ret, heatmap, heap, current_frame, published,
                 exc, window, srvVars, connVars>>

\* server.shutdown(): returns once serve_forever has left its loop.
Shutdown ==
  /\ pc = "shutdown"
  /\ ServerIdle
  /\ accepting' = FALSE
  /\ pc' = "server_close"
  /\ UNCHANGED <<headless, locals, cap, n, ret, heatmap, heap, current_frame,
                 published, exc, window, sock, connVars>>

\* server.server_close(): closes the listening socket ...
ServerClose ==
  /\ pc = "server_close"
  /\ sock' = "closed"
  /\ pc' = "join"
  /\ UNCHANGED <<headless, locals, cap, n, ret, heatmap, heap, current_frame,
                 published, exc, window, accepting, connVars>>

\* ... and joins the handler threads (ThreadingMixIn.server_close).
JoinThreads ==
  /\ pc = "join"
  /\ ThreadsJoined
  /\ pc' = "destroy"
  /\ UNCHANGED <<headless, locals, cap, n, ret, heatmap, heap, current_frame,
                 published, exc, window, srvVars, connVars>>

\* if not args.headless: cv2.destroyAllWindows(); print("Capture ended")
Destroy ==
  /\ pc = "destroy"
  /\ window' = (IF headless THEN window ELSE FALSE)
  /\ pc' = "main_done"
  /\ UNCHANGED <<headless, locals, cap, n, ret, heatmap, heap, current_frame,
                 published, exc, srvVars, connVars>>

\* The script has ended; the interpreter exits once the non-daemon threads
\* have and the daemon threads die with it.
Exit ==
  /\ pc = "main_done"
  /\ ThreadsJoined
  /\ pc' = (IF exc THEN "crashed" ELSE "exited")
  /\ cpc' = [c \in Conns |-> IF Active(c) THEN "killed" ELSE cpc[c]]
  /\ UNCHANGED <<headless, locals, cap, n, ret, heatmap, heap, current_frame,
                 published, exc, window, srvVars, path, client, status,
                 frame, jpeg, out>>

MainStep ==
  \/ InitServer \/ StartServerThread \/ OpenCapture
  \/ IsOpened \/ Read \/ Process \/ PutTextStep \/ SetFrame \/ Display
  \/ Except
  \/ Release \/ Shutdown \/ ServerClose \/ JoinThreads \/ Destroy \/ Exit

----------------------------------------------------------------------------
\* Clients and the serve_forever thread

\* A client connects and sends "GET p"; the connection waits in the backlog
\* of the listening socket.
Connect(c) ==
  /\ cpc[c] = "idle"
  /\ sock = "listening"
  /\ \E p \in Paths : path' = [path EXCEPT ![c] = p]
  /\ cpc' = [cpc EXCEPT ![c] = "queued"]
  /\ UNCHANGED <<mainVars, srvVars, client, status, frame, jpeg, out>>

\* serve_forever accepts the connection and process_request starts its
\* handler (ThreadingMixIn: in a new thread).
Accept(c) ==
  /\ cpc[c] = "queued"
  /\ accepting
  /\ sock = "listening"
  /\ ServerIdle
  /\ cpc' = [cpc EXCEPT ![c] = "do_GET"]
  /\ UNCHANGED <<mainVars, srvVars, path, client, status, frame, jpeg, out>>

\* The client of a streaming connection stops draining its socket (the
\* pending write blocks), drains it again, or disconnects.
ClientStall(c) ==
  /\ cpc[c] \in WritePcs
  /\ client[c] = "ok"
  /\ client' = [client EXCEPT ![c] = "slow"]
  /\ UNCHANGED <<mainVars, srvVars, path, cpc, status, frame, jpeg, out>>

ClientResume(c) ==
  /\ client[c] = "slow"
  /\ client' = [client EXCEPT ![c] = "ok"]
  /\ UNCHANGED <<mainVars, srvVars, path, cpc, status, frame, jpeg, out>>

ClientClose(c) ==
  /\ cpc[c] \in StreamPcs
  /\ client[c] # "gone"
  /\ client' = [client EXCEPT ![c] = "gone"]
  /\ UNCHANGED <<mainVars, srvVars, path, cpc, status, frame, jpeg, out>>

----------------------------------------------------------------------------
\* StreamingHandler.do_GET (lines 17-50)

\* The status do_GET answers a path with.
Route(p) == IF p \in {"/", "/stream"} THEN 200 ELSE 404

\* A handler that streams on every path but '/'.
Streams_NotRoot(p) == p # "/"

\* The paths whose handler enters the streaming loop.
Streams(p) == p = "/stream"

\* Lines 18-36 and 48-50: the response line and headers; '/' writes the page
\* and returns, an unknown path sends the 404 and returns, '/stream' goes on
\* to the loop.
DoGET(c) ==
  /\ cpc[c] = "do_GET"
  /\ status' = [status EXCEPT ![c] = Route(path[c])]
  /\ cpc' = [cpc EXCEPT ![c] = IF Streams(path[c]) THEN "get_frame" ELSE "done"]
  /\ UNCHANGED <<mainVars, srvVars, path, client, frame, jpeg, out>>

\* A handler that waits at get_frame until the store holds another frame
\* than the one it read last.
GetFrame_Waiting(c) ==
  /\ cpc[c] = "get_frame"
  /\ current_frame # frame[c]
  /\ frame' = [frame EXCEPT ![c] = get_frame]
  /\ cpc' = [cpc EXCEPT ![c] = "test"]
  /\ UNCHANGED <<mainVars, srvVars, path, client, status, jpeg, out>>

\* A handler that takes the frame out of the store when it reads it.
GetFrame_Taking(c) ==
  /\ cpc[c] = "get_frame"
  /\ frame' = [frame EXCEPT ![c] = get_frame]
  /\ current_frame' = None
  /\ cpc' = [cpc EXCEPT ![c] = "test"]
  /\ UNCHANGED <<pc, headless, cap, n, ret, heatmap, heap, published, exc,
                 window, locals, srvVars, path, client, status, jpeg, out>>

\* frame = self.server.get_frame()
GetFrame(c) ==
  /\ cpc[c] = "get_frame"
  /\ frame' = [frame EXCEPT ![c] = get_frame]
  /\ cpc' = [cpc EXCEPT ![c] = "test"]
  /\ UNCHANGED <<mainVars, srvVars, path, client, status, jpeg, out>>

\* The frames the loop encodes and sends: if frame is not None
Sendable(f) == f # None

\* if frame is not None: _, jpeg = cv2.imencode('.jpg', frame)
\* else: back to the top of the loop
Test(c) ==
  /\ cpc[c] = "test"
  /\ IF Sendable(frame[c])
       THEN /\ jpeg' = [jpeg EXCEPT ![c] = Imencode(heap[frame[c]])]
            /\ cpc' = [cpc EXCEPT ![c] = "w_boundary"]
       ELSE /\ cpc' = [cpc EXCEPT ![c] = "get_frame"]
            /\ jpeg' = jpeg
  /\ UNCHANGED <<mainVars, srvVars, path, client, status, frame, out>>

\* The log after one more write: it holds the writes of the most recent part,
\* and starts again once PartLen writes have been logged.
Logged(log, tok) ==
  IF Len(log) >= PartLen THEN <<tok>> ELSE Append(log, tok)

\* What the write at position p sends, and the position after it.
Token(c, p) ==
  CASE p = "w_boundary" -> Boundary
    [] p = "w_header" -> Header
    [] p = "w_payload" -> jpeg[c]
    [] p = "w_crlf" -> CRLF

\* A loop that leaves out the line break after the payload.
After_NoTrailer(p) ==
  CASE p = "w_boundary" -> "w_header"
    [] p = "w_header" -> "w_payload"
    [] p = "w_payload" -> "get_frame"
    [] p = "w_crlf" -> "get_frame"

\* A handler that sends one part and returns (if instead of while).
After_OnePart(p) ==
  CASE p = "w_boundary" -> "w_header"
    [] p = "w_header" -> "w_payload"
    [] p = "w_payload" -> "w_crlf"
    [] p = "w_crlf" -> "done"

After(p) ==
  CASE p = "w_boundary" -> "w_header"
    [] p = "w_header" -> "w_payload"
    [] p = "w_payload" -> "w_crlf"
    [] p = "w_crlf" -> "get_frame"

\* A handler whose try is inside the while: a failed write is retried.
OnWriteError_Retry(c) == [cpc EXCEPT ![c] = "get_frame"]

\* Where a failed write of connection c takes its handler: into the except
\* clause of its own try.
OnWriteError(c) == [cpc EXCEPT ![c] = "except"]

\* self.wfile.write(...), lines 42-45: blocks while the client is slow,
\* raises when the client is gone.
Write(c) ==
  /\ cpc[c] \in WritePcs
  /\ client[c] # "slow"
  /\ IF client[c] = "ok"
       THEN /\ out' = [out EXCEPT ![c] = Logged(out[c], Token(c, cpc[c]))]
            /\ cpc' = [cpc EXCEPT ![c] = After(cpc[c])]
       ELSE /\ cpc' = OnWriteError(c)
            /\ out' = out
  /\ UNCHANGED <<mainVars, srvVars, path, client, status, frame, jpeg>>

\* except Exception as e: print(...); do_GET returns and the thread ends.
\* Its locals go with it.
HandlerExcept(c) ==
  /\ cpc[c] = "except"
  /\ cpc' = [cpc EXCEPT ![c] = "done"]
  /\ frame' = [frame EXCEPT ![c] = None]
  /\ jpeg' = [jpeg EXCEPT ![c] = NoJpeg]
  /\ UNCHANGED <<mainVars, srvVars, path, client, status, out>>

ConnStep(c) ==
  DoGET(c) \/ GetFrame(c) \/ Test(c) \/ Write(c) \/ HandlerExcept(c)

ClientStep(c) ==
  Connect(c) \/ ClientStall(c) \/ ClientResume(c) \/ ClientClose(c)

----------------------------------------------------------------------------
Next ==
  \/ MainStep
  \/ Interrupt
  \/ \E c \in Conns : Accept(c)
  \/ \E c \in Conns : ConnStep(c)
  \/ \E c \in Conns : ClientStep(c)

Spec == Init /\ [][Next]_vars

\* Scheduling: the main thread and every handler thread that can take a step
\* eventually takes one. Clients and Ctrl+C are under no obligation.
Fairness ==
  /\ WF_vars(MainStep)
  /\ \A c \in Conns : WF_vars(ConnStep(c))

\* Headless runs (the server without the display window) under fair
\* scheduling.
HeadlessInit == Init /\ headless = TRUE

FairSpec == HeadlessInit /\ [][Next]_vars /\ Fairness

\* The same scheduling for a run with the display window (no --headless).
WindowInit == Init /\ headless = FALSE

FairWindowSpec == WindowInit /\ [][Next]_vars /\ Fairness

----------------------------------------------------------------------------
\* Definitions shared by the properties

Range(seq) == {seq[i] : i \in 1..Len(seq)}

Last(seq) == seq[Len(seq)]

\* The array content a JPEG payload was encoded from.
Decoded(j) == [img |-> j.img, text |-> j.text]

\* The main thread has left the try block.
FinallyPcs == {"release", "shutdown", "server_close", "join", "destroy",
               "main_done", "exited", "crashed"}

\* The capture loop has an array in hand that it has not published yet.
UnderConstruction(o) == pc \in {"putText", "set_frame"} /\ heatmap = o

\* Connection c is blocked in a write to a client that does not drain.
Blocked(c) == cpc[c] \in WritePcs /\ client[c] = "slow"

\* The next step of the capture loop.
CaptureStep ==
  IsOpened \/ Read \/ Process \/ PutTextStep \/ SetFrame \/ Display

----------------------------------------------------------------------------
\* C1: whatever the interleaving of the capture loop with the streaming
\* connections, the frame a connection got from get_frame, the JPEG it
\* encoded from it and the payload it wrote are each None or exactly one
\* frame that was published whole (colour-mapped and annotated for one and
\* the same capture before set_frame); it is never an array the capture
\* loop is still working on, and never a mixture of two frames.
C1_NoTornFrame ==
  /\ \A i \in 1..Len(published) : Whole(published[i])
  /\ \A c \in Conns :
       /\ frame[c] # None =>
            /\ Whole(heap[frame[c]])
            /\ heap[frame[c]] \in Range(published)
            /\ ~UnderConstruction(frame[c])
       /\ jpeg[c] # NoJpeg =>
            /\ Whole(Decoded(jpeg[c]))
            /\ Decoded(jpeg[c]) \in Range(published)
       /\ \A i \in 1..Len(out[c]) :
            out[c][i].kind = "jpeg" => Decoded(out[c][i]) \in Range(published)

\* A connection holds frame 1 while the capture loop is drawing on the array
\* of the next capture.
C1_Witness ==
  \E c \in Conns :
    /\ cpc[c] = "test"
    /\ frame[c] # None
    /\ pc = "putText"
    /\ heatmap # frame[c]

----------------------------------------------------------------------------
\* C2: until the first set_frame the store holds None: every get_frame
\* returns None, a connection that read None encodes and writes nothing, so
\* no part has been written on any connection; and at any time a connection
\* is inside a part only with a frame that is not None.
C2_EmptyUntilPublished ==
  /\ published = <<>> =>
       /\ get_frame = None
       /\ \A c \in Conns :
            /\ frame[c] = None
            /\ jpeg[c] = NoJpeg
            /\ out[c] = <<>>
            /\ cpc[c] \notin WritePcs
  /\ \A c \in Conns : cpc[c] \in WritePcs => frame[c] # None

\* A streaming connection has just read None from the store, before any
\* publish.
C2_Witness ==
  \E c \in Conns :
    /\ cpc[c] = "test"
    /\ frame[c] = None
    /\ published = <<>>
    /\ pc \in {"read", "process", "putText", "set_frame"}

----------------------------------------------------------------------------
\* C3: the store holds the frame of the most recent completed capture
\* iteration, or None when none has completed: the publishes so far are those
\* of captures 1, 2, ... in this order, one per capture; when the loop is
\* about to read again every frame read so far has been published; a read
\* that has not reached set_frame has published nothing.
C3_StoreIsLatest ==
  /\ published = [i \in 1..Len(published) |-> [img |-> i, text |-> i]]
  /\ IF published = <<>>
       THEN current_frame = None
       ELSE current_frame # None /\ heap[current_frame] = Last(published)
  /\ Len(published) \in {n - 1, n}
  /\ pc \in {"isOpened", "read", "display"} => Len(published) = n
  /\ pc \in {"process", "putText", "set_frame"} => Len(published) = n - 1

\* The second capture has replaced the first and the loop is about to read.
C3_Witness ==
  /\ pc = "read"
  /\ Len(published) = 2
  /\ heap[current_frame].img = 2

----------------------------------------------------------------------------
\* C4: a stop signal always leads to process exit: once the capture loop has
\* been interrupted, the finally block runs to completion and the process
\* exits, even with /stream connections still active.
C4_InterruptLeadsToExit == (pc = "except") ~> (pc = "exited")

----------------------------------------------------------------------------
\* C5: a failed write on a /stream connection takes that handler into its
\* own except clause and changes nothing else: not the store, not the main
\* thread, not the server, not any other connection; the handler then ends
\* and stays ended, writing nothing more (no retry); and with a connection
\* ended this way the capture loop and every other handler that is not
\* blocked can still take their next step.
C5_WriteFailureIsLocal ==
  /\ [](\A c \in Conns :
          (cpc[c] \in {"except", "done"} /\ client[c] = "gone") =>
            /\ pc \in TryPcs => ENABLED CaptureStep
            /\ \A d \in Conns \ {c} :
                 (cpc[d] \in HandlerPcs /\ ~Blocked(d)) => ENABLED ConnStep(d))
  /\ [][\A c \in Conns :
          /\ (cpc[c] \in WritePcs /\ client[c] = "gone" /\ cpc'[c] # cpc[c]) =>
               /\ cpc'[c] = "except"
               /\ UNCHANGED <<mainVars, srvVars, out, client>>
               /\ \A d \in Conns \ {c} :
                    /\ cpc'[d] = cpc[d]
                    /\ frame'[d] = frame[d]
                    /\ jpeg'[d] = jpeg[d]
          /\ cpc[c] = "except" => cpc'[c] \in {"except", "done"}
          /\ cpc[c] = "done" => cpc'[c] = "done" /\ out'[c] = out[c]
     ]_vars

\* One connection has ended on a failed write while the other is writing a
\* part and the capture loop is about to publish.
C5_Witness ==
  \E c \in Conns : \E d \in Conns \ {c} :
    /\ path[c] = "/stream"
    /\ cpc[c] = "done"
    /\ client[c] = "gone"
    /\ cpc[d] = "w_payload"
    /\ client[d] = "ok"
    /\ pc = "set_frame"

----------------------------------------------------------------------------
\* C6: while a connection is blocked in a write to a slow client, the capture
\* loop can take its next step, every other handler that is not itself
\* blocked can take its next step, and a waiting connection can be accepted.
C6_BlockedIsolated ==
  \A c \in Conns :
    Blocked(c) =>
      /\ pc \in TryPcs => ENABLED CaptureStep
      /\ \A d \in Conns \ {c} :
           /\ (cpc[d] \in HandlerPcs /\ ~Blocked(d)) => ENABLED ConnStep(d)
           /\ (cpc[d] = "queued" /\ accepting /\ sock = "listening") =>
                ENABLED Accept(d)

\* One connection is blocked while the other is about to read the store and
\* the capture loop is about to publish.
C6_Witness ==
  \E c \in Conns : \E d \in Conns \ {c} :
    /\ Blocked(c)
    /\ cpc[d] = "get_frame"
    /\ pc = "set_frame"

----------------------------------------------------------------------------
\* Connection c has entered the streaming loop, its client accepts writes and
\* the store holds a frame.
C7_Served(c) ==
  /\ path[c] = "/stream"
  /\ status[c] = 200
  /\ client[c] = "ok"
  /\ current_frame # None

\* C7: under fair scheduling, every connection that has entered the
\* streaming loop and whose client keeps accepting writes, with a frame in
\* the store, begins a part infinitely often and completes a part infinitely
\* often, whatever happens to the other connection. ("If from some point on
\* Served(c) always holds then P holds infinitely often" is written in the
\* equivalent form "infinitely often, P or not Served(c)".)
C7_EveryStreamKeepsReceiving ==
  \A c \in Conns :
    /\ []<>(~C7_Served(c) \/ cpc[c] = "w_header")
    /\ []<>(~C7_Served(c) \/ Len(out[c]) = PartLen)

\* A connection has completed a part and is about to begin the next one
\* after the other streaming connection has ended.
C7_Witness ==
  \E c \in Conns : \E d \in Conns \ {c} :
    /\ path[d] = "/stream"
    /\ cpc[d] = "done"
    /\ cpc[c] = "w_boundary"
    /\ Len(out[c]) = PartLen
    /\ client[c] = "ok"

----------------------------------------------------------------------------
\* C8: once a camera read has failed (ret is False) the capture loop is over
\* and nothing is published any more; every get_frame from then on returns
\* the last published frame; a streaming connection leaves its loop only
\* through its own except clause after its client has gone (the server does
\* not end it), and until then it can take its next step unless blocked.
C8_CameraFailureKeepsServing ==
  /\ [](ret = "False" =>
          /\ pc \in FinallyPcs
          /\ \A c \in Conns :
               (cpc[c] \in StreamPcs /\ ~Blocked(c)) => ENABLED ConnStep(c))
  /\ [][ret = "False" =>
          /\ UNCHANGED <<ret, published, current_frame>>
          /\ \A c \in Conns :
               /\ (cpc[c] \in StreamPcs /\ cpc'[c] \notin StreamPcs) =>
                    (cpc[c] = "except" /\ client[c] = "gone")
               /\ (cpc[c] = "get_frame" /\ cpc'[c] = "test") =>
                    /\ frame'[c] = current_frame
                    /\ published # <<>> =>
                         heap[frame'[c]] = Last(published)
     ]_vars

\* After a failed read in mid-run, with the main thread in server_close, a
\* connection is writing the last published frame.
C8_Witness ==
  \E c \in Conns :
    /\ ret = "False"
    /\ pc = "join"
    /\ published # <<>>
    /\ cpc[c] = "w_crlf"
    /\ client[c] = "ok"
    /\ Decoded(out[c][3]) = Last(published)

----------------------------------------------------------------------------
\* The i-th write of a part is the one the loop makes at that place.
C9_Expected(c, i) ==
  CASE i = 1 -> out[c][i] = Boundary
    [] i = 2 -> out[c][i] = Header
    [] i = 3 -> /\ out[c][i].kind = "jpeg"
                /\ Decoded(out[c][i]) \in Range(published)
    [] i = 4 -> out[c][i] = CRLF
    [] OTHER -> FALSE

\* C9: the writes of a streaming loop are parts written in the fixed order
\* boundary line, Content-Type header with blank line, JPEG payload of one
\* published frame, line break; a part is begun only after the previous one
\* is complete; a part is left incomplete only by a handler that a failed
\* write has ended, and an ended handler writes nothing more.
C9_PartFraming ==
  /\ [](\A c \in Conns :
          /\ \A i \in 1..Len(out[c]) : C9_Expected(c, i)
          /\ cpc[c] \in {"get_frame", "test", "w_boundary"} =>
               Len(out[c]) \in {0, PartLen}
          /\ cpc[c] = "w_header" => Len(out[c]) = 1
          /\ cpc[c] = "w_payload" => Len(out[c]) = 2
          /\ cpc[c] = "w_crlf" => Len(out[c]) = 3 /\ out[c][3] = jpeg[c]
          /\ Len(out[c]) \notin {0, PartLen} =>
               \/ cpc[c] \in WritePcs
               \/ cpc[c] \in {"except", "done"} /\ client[c] = "gone"
          /\ path[c] # "/stream" => out[c] = <<>>)
  /\ [][\A c \in Conns :
          cpc[c] \in {"except", "done"} => out'[c] = out[c]]_vars

\* One connection has completed a part and is about to begin the next; the
\* other has ended on a failed write in the middle of a part.
C9_Witness ==
  \E c \in Conns : \E d \in Conns \ {c} :
    /\ cpc[c] = "w_boundary"
    /\ Len(out[c]) = PartLen
    /\ cpc[d] = "done"
    /\ Len(out[d]) = 2

----------------------------------------------------------------------------
\* C10: only '/stream' enters the streaming loop; a GET for any path other
\* than '/' and '/stream' is answered 404 and '/' is answered 200, and both
\* handlers end at once without reading the store, writing a part, or
\* changing the store, the main thread, the server or another connection.
C10_OnlyStreamStreams ==
  /\ [](\A c \in Conns :
          /\ cpc[c] \in StreamPcs => path[c] = "/stream" /\ status[c] = 200
          /\ status[c] = 404 <=>
               (cpc[c] = "done" /\ path[c] \notin {"/", "/stream"})
          /\ (cpc[c] = "done" /\ path[c] = "/") => status[c] = 200
          /\ path[c] # "/stream" =>
               frame[c] = None /\ jpeg[c] = NoJpeg /\ out[c] = <<>>)
  /\ [][\A c \in Conns :
          (cpc[c] = "do_GET" /\ cpc'[c] # "do_GET" /\ path[c] # "/stream") =>
            /\ cpc'[c] = "done"
            /\ UNCHANGED <<mainVars, srvVars, frame, jpeg, out, client, path>>
            /\ \A d \in Conns \ {c} :
                 cpc'[d] = cpc[d] /\ status'[d] = status[d]
     ]_vars

\* An unknown path has been answered 404 while the other connection is
\* streaming and the capture loop is running.
C10_Witness ==
  \E c \in Conns : \E d \in Conns \ {c} :
    /\ status[c] = 404
    /\ cpc[c] = "done"
    /\ cpc[d] \in WritePcs
    /\ pc \in TryPcs

----------------------------------------------------------------------------
\* Temperature decode (lines 116-121).
\*
\* thdata is a numpy uint8 array, so thdata[96][128][i] is a numpy.uint8
\* scalar.  Temperatures are kept exact, in units of 1/6400 degree Celsius
\* (rawtemp/64 - 273.15 times 6400), so that no rounding enters the model.

Byte == 0..255

\* hi = thdata[96][128][0]: the first byte of the pixel.
Hi_Second(px) == px[2]

Hi(px) == px[1]

\* lo = thdata[96][128][1]: the second byte of the pixel.
Lo(px) == px[2]

\* A product kept in the width of its uint8 operand.
LoTimes256_Uint8(l) == (l * 256) % 256

\* lo = lo*256: a numpy.uint8 scalar times the Python int 256.  Under the
\* promotion rules of NumPy 1.x the result is a numpy.int_ (32 bits or
\* more), which holds every product up to 255*256.  Under the rules of
\* NumPy 2 (NEP 50) the expression raises OverflowError instead, whatever
\* the value of lo: that outcome is the action DecodeRaises.
LoTimes256(l) == l * 256

\* rawtemp = hi+lo
Rawtemp(px) == Hi(px) + LoTimes256(Lo(px))

\* temp = (rawtemp/64)-273.15, in units of 1/6400 degree Celsius.
Temp(raw) == raw * 100 - 27315 * 64

\* Thermal pixels of the frame processed by an earlier iteration.
PrevPixels == {<<255, 255>>}

\* The capture loop about to process its first frame: nothing published,
\* rawtemp and temp not yet bound.
FirstIteration ==
  /\ n = 1
  /\ heatmap = None
  /\ heap = [o \in 1..MaxCaptures |-> Blank]
  /\ current_frame = None
  /\ published = <<>>
  /\ rawtemp = Unbound
  /\ temp = Unbound

\* The capture loop about to process its second frame: the first one is in
\* the store, rawtemp and temp hold what the first iteration left.
LaterIteration ==
  /\ n = 2
  /\ heatmap = 1
  /\ heap = [o \in 1..MaxCaptures |->
               IF o = 1 THEN PutText(ColorMapped(1), 1) ELSE Blank]
  /\ current_frame = 1
  /\ published = <<PutText(ColorMapped(1), 1)>>
  /\ \E prev \in PrevPixels :
       /\ rawtemp = Rawtemp(prev)
       /\ temp = Temp(Rawtemp(prev))

\* A state of the capture loop after line 111, for every value of the two
\* bytes of the thermal pixel of the frame just read.
DecodeInit ==
  /\ pc = "process"
  /\ headless = TRUE
  /\ cap = "open"
  /\ ret = "True"
  /\ exc = FALSE
  /\ accepting = TRUE
  /\ sock = "listening"
  /\ window = FALSE
  /\ path = [c \in Conns |-> "/"]
  /\ cpc = [c \in Conns |-> "idle"]
  /\ client = [c \in Conns |-> "ok"]
  /\ status = [c \in Conns |-> 0]
  /\ frame = [c \in Conns |-> None]
  /\ jpeg = [c \in Conns |-> NoJpeg]
  /\ out = [c \in Conns |-> <<>>]
  /\ thdata \in Byte \X Byte
  /\ FirstIteration \/ LaterIteration

\* Lines 117-121 run to the end; the next statement is the conversion of
\* line 124.
Decode ==
  /\ pc = "process"
  /\ thdata # <<>>
  /\ rawtemp' = Rawtemp(thdata)
  /\ temp' = Temp(rawtemp')
  /\ pc' = "convert"
  /\ UNCHANGED <<headless, cap, n, ret, heatmap, heap, current_frame,
                 published, exc, window, thdata, srvVars, connVars>>

\* Line 119 raises (NumPy 2): rawtemp and temp are not assigned, and the
\* exception leaves the try block through finally.
DecodeRaises ==
  /\ pc = "process"
  /\ thdata # <<>>
  /\ exc' = TRUE
  /\ pc' = "release"
  /\ UNCHANGED <<headless, cap, n, ret, heatmap, heap, current_frame,
                 published, window, locals, srvVars, connVars>>

DecodeNext ==
  \/ Decode
  \/ DecodeRaises

DecodeSpec == DecodeInit /\ [][DecodeNext]_vars

\* C11: the decoded temperature depends on the two bytes of the thermal
\* pixel only: whatever the store holds and whatever an earlier iteration
\* left in rawtemp and temp, first byte 0 and second byte 0 give a raw
\* reading of 0 and -273.15 C, and first byte 64 and second byte 0 give a
\* raw reading of 64 and -272.15 C.
C11_DecodeExamples ==
  pc = "convert" =>
    /\ thdata = <<0, 0>> => rawtemp = 0 /\ temp = 0 - 27315 * 64
    /\ thdata = <<64, 0>> => rawtemp = 64 /\ temp = 0 - 27215 * 64

\* The pixel (64, 0) has been decoded in an iteration that found a frame
\* in the store and another reading in rawtemp before it.
C11_Witness ==
  /\ pc = "convert"
  /\ thdata = <<64, 0>>
  /\ rawtemp = 64
  /\ current_frame # None
  /\ n = 2

\* C12 as stated: with low the first byte and high the second byte, the
\* raw reading is low*256 + high and the temperature is that reading over
\* 64, minus 273.15.
C12_FirstByteTimes256 ==
  pc = "convert" =>
    /\ rawtemp = thdata[1] * 256 + thdata[2]
    /\ temp = rawtemp * 100 - 27315 * 64

\* C12, amended: whenever the decode completes, the raw reading is the
\* second byte times 256 plus the first byte, it lies in 0..65535 (the
\* product is not reduced modulo 256), and the temperature is that reading
\* over 64, minus 273.15.
C12_SecondByteTimes256 ==
  pc = "convert" =>
    /\ rawtemp = thdata[2] * 256 + thdata[1]
    /\ rawtemp \in 0..65535
    /\ (thdata[2] >= 1 => rawtemp >= 256)
    /\ temp + 27315 * 64 = rawtemp * 100

\* The largest reading has been decoded: both bytes 255.
C12_Witness ==
  /\ pc = "convert"
  /\ thdata = <<255, 255>>
  /\ rawtemp = 65535

----------------------------------------------------------------------------
\* C13: a start-up failure keeps the capture loop from being entered.  If
\* the bind of the listening socket fails the script ends there: the camera
\* is never opened, nothing is read or published.  If the camera does not
\* open, the loop condition is false at once: no read and no publish
\* happens and the store stays empty, up to the end of the run.
C13_StartupFailureIsFatal ==
  /\ [](/\ (sock = "unbound" /\ pc # "init_server") =>
             /\ pc = "crashed"
             /\ cap = "unset"
             /\ n = 0 /\ ret = "unset"
             /\ published = <<>> /\ current_frame = None
        /\ cap = "unopened" =>
             /\ pc \in {"isOpened", "except", "release"}
             /\ n = 0 /\ ret = "unset"
             /\ published = <<>> /\ current_frame = None
        /\ n = 0 => published = <<>> /\ current_frame = None)
  /\ [][(cap \in {"unopened", "released"}) =>
          (/\ n' = n /\ ret' = ret
           /\ published' = published
           /\ current_frame' = current_frame
           /\ pc' \notin (TryPcs \ {"isOpened"}))]_vars

\* The camera did not open and the loop has been skipped, while a client
\* was polling the empty store.
C13_Witness ==
  /\ cap = "unopened"
  /\ pc = "release"
  /\ \E c \in Conns : cpc[c] = "test" /\ frame[c] = None

----------------------------------------------------------------------------
\* Positions of the main thread after the last statement of finally.
AfterFinally == {"main_done", "exited", "crashed"}

\* C14: however the capture loop ends (failed read, camera not open, quit
\* key, interrupt), the finally block follows and runs to its end: the
\* camera is released, the accept loop is stopped, the listening socket is
\* closed and, when not headless, destroyAllWindows is called.
C14_ShutdownRunsToEnd ==
  (pc = "release") ~>
    /\ cap = "released"
    /\ ~accepting
    /\ sock = "closed"
    /\ (headless \/ pc \in AfterFinally)

----------------------------------------------------------------------------
\* Everything that belongs to connection c: its request, its handler
\* thread with its locals, and its socket with the client behind it.
OwnState(c) ==
  <<path[c], cpc[c], client[c], status[c], frame[c], jpeg[c], out[c]>>

\* C15: current_frame changes only in the set_frame call of the capture
\* loop.  A step of a connection (the handler of '/', of '/stream' or of an
\* unknown path, a write that fails, a client that stalls or goes away)
\* changes neither the store nor anything else of the main thread or the
\* server, nor anything of another connection.
C15_CaptureLoopIsOnlyWriter ==
  [][/\ current_frame' # current_frame =>
          pc = "set_frame" /\ pc' = "display"
     /\ pc' = pc =>
          /\ UNCHANGED <<mainVars, srvVars>>
          /\ \E c \in Conns : \A d \in Conns \ {c} : OwnState(d)' = OwnState(d)
    ]_vars

\* With a published frame in the store, one streaming connection has
\* failed on a write and ended, another request was answered 404, and the
\* store still holds the last frame published.
C15_Witness ==
  /\ current_frame # None
  /\ heap[current_frame] = Last(published)
  /\ \E c \in Conns : \E d \in Conns \ {c} :
       /\ path[c] = "/stream" /\ cpc[c] = "done" /\ client[c] = "gone"
       /\ Len(out[c]) >= 1
       /\ status[d] = 404

----------------------------------------------------------------------------
\* C16: get_frame never waits for a publish: a handler that is at its
\* get_frame call can always complete it, and gets what the store holds at
\* that moment, be it nothing or the frame it has read before.  Connections
\* are therefore not synchronised with the capture loop: a frame can be
\* delivered twice in a row, and a frame can be overwritten before a
\* connection reads it (the witness shows both).
C16_GetFrameNeverWaits ==
  \A c \in Conns :
    cpc[c] = "get_frame" =>
      ENABLED (GetFrame(c) /\ frame'[c] = current_frame)

\* Connection c has written a part with the frame of some capture and has
\* encoded the same frame again for its next part; connection d called
\* get_frame before the first publish and has not called it again, while
\* the first frame was published and then overwritten by the second.
C16_Witness ==
  \E c \in Conns : \E d \in Conns \ {c} :
    /\ cpc[c] = "w_boundary"
    /\ Len(out[c]) = PartLen
    /\ out[c][3] = jpeg[c]
    /\ cpc[d] = "test"
    /\ frame[d] = None
    /\ Len(published) = 2
    /\ current_frame = 2

----------------------------------------------------------------------------
\* C17: a processing error on one captured frame does not end the capture
\* loop: whatever happens to the frame in lines 114-131, the main thread
\* is still inside the loop afterwards (or in the handler of an interrupt)
\* and no exception is left pending.
C17_BadFrameKeepsLoopRunning ==
  [][(pc = "process" /\ pc' # pc) =>
       /\ pc' \in TryPcs \cup {"except"}
       /\ exc' = FALSE
    ]_vars

----------------------------------------------------------------------------
\* C18: on every /stream connection the frames go out in capture order:
\* the JPEG a handler encodes is never of an older capture than the one it
\* encoded before, and the payload of the part it wrote last is never of a
\* newer capture than the JPEG it is about to write.
C18_CaptureOrder ==
  /\ [](\A c \in Conns :
          (cpc[c] = "w_boundary" /\ Len(out[c]) = PartLen) =>
            /\ out[c][3].kind = "jpeg"
            /\ out[c][3].img <= jpeg[c].img)
  /\ [][\A c \in Conns :
          (jpeg[c].kind = "jpeg" /\ jpeg'[c].kind = "jpeg") =>
            jpeg'[c].img >= jpeg[c].img
     ]_vars

\* A connection has written a part with the frame of capture 1 and has
\* encoded the frame of capture 2 for its next part.
C18_Witness ==
  \E c \in Conns :
    /\ cpc[c] = "w_boundary"
    /\ Len(out[c]) = PartLen
    /\ out[c][3].img = 1
    /\ jpeg[c].img = 2

----------------------------------------------------------------------------
\* C19: under fair scheduling, a /stream handler whose client has gone
\* away eventually leaves its loop and its thread ends, whatever the store
\* holds, an empty store included.
C19_DisconnectedStreamEnds ==
  \A c \in Conns :
    (client[c] = "gone" /\ cpc[c] \in StreamPcs) ~> (cpc[c] \notin StreamPcs)

====
